---- MODULE Spec2Model ----
(***************************************************************************)
(* Web Forx Online Storeshop (src/app.js): the startup chain, the health   *)
(* probe and the POST /checkout handler, over the relational store         *)
(* (products, orders, order_items) they read and write.                    *)
(***************************************************************************)
EXTENDS Integers, Sequences, FiniteSets, TLC

(* ------------------------------ bounds -------------------------------- *)

\* Longest cart array a request submits.
MaxCart == 2

\* POST /checkout requests received over the store's lifetime.
MaxPosts == 2

\* Process startups against the same store.
MaxBoots == 2

\* Requests whose save() is in flight at the same time.
MaxInFlight == 2

(* --------------------------- JavaScript values ------------------------ *)

\* A JavaScript value as the handler sees it. t is the type tag; n the
\* numeric payload (t = "num"); s the string payload (t = "str").
Undefined == [t |-> "undefined", n |-> 0, s |-> ""]

Null == [t |-> "null", n |-> 0, s |-> ""]

NaN == [t |-> "nan", n |-> 0, s |-> ""]

Num(n) == [t |-> "num", n |-> n, s |-> ""]

Str(s) == [t |-> "str", n |-> 0, s |-> s]

\* a * b on JavaScript values restricted to numbers and undefined:
\* undefined converts to NaN and NaN is absorbing.
JsMul(a, b) ==
  IF a.t = "num" /\ b.t = "num" THEN Num(a.n * b.n) ELSE NaN

\* a + b on JavaScript numbers.
JsAdd(a, b) ==
  IF a.t = "num" /\ b.t = "num" THEN Num(a.n + b.n) ELSE NaN

(* ------------------------------ request bodies ------------------------ *)

\* One element of the parsed cart: JSON null, or an object whose name,
\* price and quantity keys are each present or missing (Undefined).
NullItem == [t |-> "null", name |-> Undefined, price |-> Undefined,
             quantity |-> Undefined]

Item(name, price, quantity) ==
  [t |-> "obj", name |-> name, price |-> price, quantity |-> quantity]

\* The cartData form field. tag says what text it holds: "undefined" (field
\* absent), "empty" (the empty string), "garbage" (text that is not JSON),
\* "object" (well-formed JSON that is not an array, such as {}), or
\* "array" (the JSON text of the array items).
CartData(tag, items) == [tag |-> tag, items |-> items]

Body(name, address, cartData) ==
  [name |-> name, address |-> address, cartData |-> cartData]

\* Sequences over S of length lo..hi.
SeqOfLen(S, lo, hi) == UNION {[1..k -> S] : k \in lo..hi}

\* Cart items the requests draw from (prices in cents): two well-formed
\* items, one without a quantity key, one without a price key, and a JSON
\* null.
DarkChocolate == Item(Str("WFX Dark Chocolate"), Num(250), Num(3))

CandyCrunch == Item(Str("WFX Candy Crunch"), Num(275), Num(1))

NoQuantity == Item(Str("WFX Dark Chocolate"), Num(250), Undefined)

NoPrice == Item(Str("WFX Dark Chocolate"), Undefined, Num(1))

OddItems == {NoQuantity, NoPrice, NullItem}

\* cartData values that are not the text of a JSON array.
NonArrayCartData ==
  {CartData(tag, <<>>) : tag \in {"undefined", "empty", "garbage", "object"}}

ArrayCartData(items) ==
  {CartData("array", c) : c \in SeqOfLen(items, 0, MaxCart)}

\* name and address form fields: absent, empty, or filled in.
NameValues == {Undefined, Str(""), Str("Alice")}

AddressValues == {Undefined, Str(""), Str("1 Main St")}

(* --------------------------- POST /checkout, pure parts --------------- *)

\* cartData || '[]' : an absent or empty cartData is replaced by the text [].
OrEmptyArray(cartData) ==
  IF cartData.tag \in {"undefined", "empty"} THEN CartData("array", <<>>)
  ELSE cartData

\* JSON.parse(text): throws on text that is not JSON, else the value.
JSONParse(text) ==
  CASE text.tag = "garbage" -> [threw |-> TRUE, isArray |-> FALSE, items |-> <<>>]
    [] text.tag = "object" -> [threw |-> FALSE, isArray |-> FALSE, items |-> <<>>]
    [] OTHER -> [threw |-> FALSE, isArray |-> TRUE, items |-> text.items]

\* cartItems.reduce((sum, item) => sum + item.price * item.quantity, 0),
\* left to right; reading .price of null throws a TypeError.
RECURSIVE ReduceFrom(_, _, _)
ReduceFrom(cartItems, k, sum) ==
  IF k > Len(cartItems) THEN [threw |-> FALSE, sum |-> sum]
  ELSE IF cartItems[k].t = "null" THEN [threw |-> TRUE, sum |-> sum]
  ELSE ReduceFrom(cartItems, k + 1,
                  JsAdd(sum, JsMul(cartItems[k].price, cartItems[k].quantity)))

ComputeTotal(cartItems) == ReduceFrom(cartItems, 1, Num(0))

\* cartItems.map(i => ({productName: i.name, productPrice: i.price,
\*                      quantity: i.quantity}))
MapOrderItems(cartItems) ==
  [k \in 1..Len(cartItems) |->
     [productName |-> cartItems[k].name,
      productPrice |-> cartItems[k].price,
      quantity |-> cartItems[k].quantity]]

\* The order object handed to save().
BuildOrder(body, cartItems, total) ==
  [name |-> body.name, address |-> body.address, total |-> total,
   orderItems |-> MapOrderItems(cartItems)]

NoOrder == [name |-> Undefined, address |-> Undefined, total |-> Num(0),
            orderItems |-> <<>>]

(* ------------------------------- the store --------------------------- *)

\* SEED_PRODUCTS_JSON unset: the six built-in products (prices in cents).
DefaultProducts ==
  << [name |-> "WFX Strawberry Delight", price |-> 300, image |-> "strawberry.svg"],
     [name |-> "WFX Dark Chocolate", price |-> 250, image |-> "chocolate.svg"],
     [name |-> "WFX Candy Crunch", price |-> 275, image |-> "candy.svg"],
     [name |-> "WFX Berry Burst", price |-> 300, image |-> "berry.svg"],
     [name |-> "WFX Salted Caramel", price |-> 250, image |-> "caramel.svg"],
     [name |-> "WFX Orange Zest", price |-> 250, image |-> "orange.svg"] >>

\* SEED_PRODUCTS_JSON as the environment sets it: "unset", "list" (the JSON
\* text of a one-product list), "emptyList" (the text []), or "invalid"
\* (text that is not JSON).
SeedSettings == {"unset", "list", "emptyList", "invalid"}


\* process.env.SEED_PRODUCTS_JSON ? JSON.parse(...) : [the six defaults]
SeedDefaults(setting) ==
  CASE setting = "unset" -> [threw |-> FALSE, list |-> DefaultProducts]
    [] setting = "list" ->
         [threw |-> FALSE,
          list |-> << [name |-> "WFX Mint", price |-> 200, image |-> "mint.svg"] >>]
    [] setting = "emptyList" -> [threw |-> FALSE, list |-> <<>>]
    [] OTHER -> [threw |-> TRUE, list |-> <<>>]

\* The rows repo.save(defaults) inserts: ids from the products sequence.
ProductRows(list, seq) ==
  [k \in 1..Len(list) |->
     [id |-> seq + k, name |-> list[k].name, price |-> list[k].price,
      image |-> list[k].image]]

\* The orders row of an order object: varchar name and address, float total
\* (a float column stores NaN). createdAt is not modelled.
OrderRow(id, order) ==
  [id |-> id, name |-> order.name.s, address |-> order.address.s,
   total |-> order.total]

\* nullable: false on name and address; a missing property is sent as
\* DEFAULT, which is NULL for a column without a default.
OrderViolates(order) ==
  order.name.t = "undefined" \/ order.address.t = "undefined"

\* The order_items row of one element of order.orderItems. quantity has
\* default: 1, which a missing quantity takes.
OrderItemRow(id, orderId, oi) ==
  [id |-> id, orderId |-> orderId, productName |-> oi.productName.s,
   productPrice |-> oi.productPrice.n,
   quantity |-> IF oi.quantity.t = "undefined" THEN 1 ELSE oi.quantity.n]

\* nullable: false on productName and productPrice.
OrderItemViolates(oi) ==
  oi.productName.t = "undefined" \/ oi.productPrice.t = "undefined"

(* ------------------------------- state -------------------------------- *)

VARIABLES
  pc,             \* where the process is in its startup chain and after
  isInitialized,  \* AppDataSource.isInitialized
  server,         \* TRUE once `server = app.listen(...)` was assigned
  seedJson,       \* process.env.SEED_PRODUCTS_JSON (a SeedSetting)
  count,          \* the seed step's `count`
  products,       \* table products, in insertion order
  productSeq,     \* last value of the products id sequence
  orders,         \* table orders: the committed rows
  orderItems,     \* table order_items: the committed rows
  orderSeq,       \* last value of the orders id sequence
  itemSeq,        \* last value of the order_items id sequence
  req,            \* the POST /checkout requests being handled, by slot
  boots,          \* process startups so far
  posts,          \* POST /checkout requests received so far
  probe           \* the last GET /readyz: what it was answered

vars == <<pc, isInitialized, server, seedJson, count, products, productSeq,
          orders, orderItems, orderSeq, itemSeq, req, boots, posts, probe>>

store == <<products, productSeq, orders, orderItems, orderSeq, itemSeq>>

process == <<pc, isInitialized, server, count>>

Slots == 1..MaxInFlight

NoCartData == CartData("undefined", <<>>)

\* A slot: st is "idle", "saving" (save() awaited), "done" (a response was
\* sent), "rejected" (the handler's promise rejected) or "dropped" (the
\* process ended under it). status 0 means no response was sent. txOrder and
\* txItems are the rows the open transaction has written.
IdleSlot ==
  [st |-> "idle", body |-> Body(Undefined, Undefined, NoCartData),
   order |-> NoOrder, txOrder |-> <<>>, txItems |-> <<>>,
   status |-> 0, text |-> "", orderId |-> 0]

NoProbe == [made |-> FALSE, initialized |-> FALSE, answer |-> "none"]

InitWith(seedSettings) ==
  /\ pc = "ensureDatabaseExists"
  /\ isInitialized = FALSE
  /\ server = FALSE
  /\ seedJson \in seedSettings
  /\ count = 0
  /\ products = <<>>
  /\ productSeq = 0
  /\ orders = {}
  /\ orderItems = {}
  /\ orderSeq = 0
  /\ itemSeq = 0
  /\ req = [r \in Slots |-> IdleSlot]
  /\ boots = 1
  /\ posts = 0
  /\ probe = NoProbe

(* ---------------------------- the startup chain ---------------------- *)

\* process.exit (or the death of the process): the connections of the
\* requests still awaiting save() are gone, and the store rolls their open
\* transactions back. They get no response.
DropInFlight(slots) ==
  [r \in Slots |->
     IF slots[r].st = "saving"
     THEN [slots[r] EXCEPT !.st = "dropped", !.txOrder = <<>>, !.txItems = <<>>]
     ELSE slots[r]]

\* .catch(err => { console.error(...); process.exit(1); })
StartupErrorSwallowed ==
  /\ pc' = "listen"
  /\ UNCHANGED <<isInitialized, server, count>>

StartupError ==
  /\ pc' = "startupError"
  /\ isInitialized' = FALSE
  /\ UNCHANGED <<server, count>>

\* ensureDatabaseExists(): skipped unless CREATE_DB_IF_MISSING is true; else
\* connects and creates the database if it is missing, and may reject.
EnsureDatabaseExists ==
  /\ pc = "ensureDatabaseExists"
  /\ \E outcome \in {"skipped", "done", "rejected"} :
       IF outcome = "rejected" THEN StartupError
       ELSE /\ pc' = "uploadStaticFilesToS3"
            /\ UNCHANGED <<isInitialized, server, count>>
  /\ UNCHANGED <<store, seedJson, req, boots, posts, probe>>

\* uploadStaticFilesToS3(): skipped unless STARTUP_UPLOAD_STATIC is true and
\* a bucket is configured; an upload may reject.
UploadStaticFilesToS3 ==
  /\ pc = "uploadStaticFilesToS3"
  /\ \E outcome \in {"skipped", "done", "rejected"} :
       IF outcome = "rejected" THEN StartupError
       ELSE /\ pc' = "initialize"
            /\ UNCHANGED <<isInitialized, server, count>>
  /\ UNCHANGED <<store, seedJson, req, boots, posts, probe>>

\* AppDataSource.initialize()
Initialize ==
  /\ pc = "initialize"
  /\ \E ok \in BOOLEAN :
       IF ok
       THEN /\ isInitialized' = TRUE
            /\ pc' = "count"
            /\ UNCHANGED <<server, count>>
       ELSE StartupError
  /\ UNCHANGED <<store, seedJson, req, boots, posts, probe>>

\* if (count === 0)
SeedAlways(n) == TRUE

SeedNeeded(n) == n = 0

\* const count = await repo.count(); if (count === 0) {...}
SeedCount ==
  /\ pc = "count"
  /\ \E ok \in BOOLEAN :
       IF ok
       THEN /\ count' = Len(products)
            /\ pc' = IF SeedNeeded(Len(products)) THEN "seed" ELSE "listen"
            /\ UNCHANGED <<isInitialized, server>>
       ELSE StartupError
  /\ UNCHANGED <<store, seedJson, req, boots, posts, probe>>

\* The seed step's insert: the defaults are read from the environment and
\* saved in one transaction, so all of them are inserted or none. A save
\* rejected after its INSERT ran leaves the id sequence advanced.
SeedSave ==
  /\ pc = "seed"
  /\ LET defaults == SeedDefaults(seedJson) IN
     \E outcome \in {"saved", "rejected", "rolledBack"} :
       IF defaults.threw \/ outcome = "rejected"
       THEN /\ StartupError
            /\ UNCHANGED <<products, productSeq>>
       ELSE IF outcome = "rolledBack"
       THEN /\ StartupError
            /\ productSeq' = productSeq + Len(defaults.list)
            /\ UNCHANGED products
       ELSE /\ products' = products \o ProductRows(defaults.list, productSeq)
            /\ productSeq' = productSeq + Len(defaults.list)
            /\ pc' = "listen"
            /\ UNCHANGED <<isInitialized, server, count>>
  /\ UNCHANGED <<orders, orderItems, orderSeq, itemSeq, seedJson, req, boots,
                 posts, probe>>

\* server = app.listen(port, '0.0.0.0', ...): a throw of listen() is caught
\* by the chain's catch; a bind failure is reported later, as an 'error'
\* event nobody listens for, which ends the process with server assigned.
Listen ==
  /\ pc = "listen"
  /\ \E outcome \in {"listening", "threw", "errorEvent"} :
       CASE outcome = "listening" ->
              /\ server' = TRUE
              /\ pc' = "listening"
              /\ UNCHANGED <<isInitialized, count>>
         [] outcome = "errorEvent" ->
              /\ server' = TRUE
              /\ pc' = "crashed"
              /\ isInitialized' = FALSE
              /\ UNCHANGED count
         [] OTHER -> StartupError
  /\ UNCHANGED <<store, seedJson, req, boots, posts, probe>>

Running ==
  pc \in {"ensureDatabaseExists", "uploadStaticFilesToS3", "initialize", "count",
          "seed", "listen", "listening", "closing"}

\* SIGTERM or SIGINT: shutdown(). With a server, stop accepting and wait for
\* the open connections; without one, exit at once.
Shutdown ==
  /\ Running
  /\ pc # "closing"
  /\ IF server
     THEN /\ pc' = "closing"
          /\ UNCHANGED <<isInitialized, req>>
     ELSE /\ pc' = "exited"
          /\ isInitialized' = FALSE
          /\ req' = DropInFlight(req)
  /\ UNCHANGED <<server, count, store, seedJson, boots, posts, probe>>

\* server.close's callback, once no request is open:
\* AppDataSource.destroy().finally(() => process.exit(0))
CloseCallback ==
  /\ pc = "closing"
  /\ \A r \in Slots : req[r].st # "saving"
  /\ pc' = "exited"
  /\ isInitialized' = FALSE
  /\ UNCHANGED <<server, count, store, seedJson, req, boots, posts, probe>>

\* setTimeout(() => process.exit(0), 10000): the exit does not wait for the
\* requests still open.
ShutdownTimeout ==
  /\ pc = "closing"
  /\ pc' = "exited"
  /\ isInitialized' = FALSE
  /\ req' = DropInFlight(req)
  /\ UNCHANGED <<server, count, store, seedJson, boots, posts, probe>>

\* The container starts the process again (CMD node app.js) against the
\* same store and environment.
Restart ==
  /\ ~Running
  /\ boots < MaxBoots
  /\ boots' = boots + 1
  /\ pc' = "ensureDatabaseExists"
  /\ isInitialized' = FALSE
  /\ server' = FALSE
  /\ count' = 0
  /\ req' = [r \in Slots |-> IdleSlot]
  /\ UNCHANGED <<store, seedJson, posts, probe>>

\* GET /readyz. The socket is open only between listen() and close(); a
\* request made outside that window is refused by the host, not answered.
ReadyzAnswerInverted(initialized) ==
  IF initialized THEN "503 not ready" ELSE "200 ready"

ReadyzAnswer(initialized) ==
  IF initialized THEN "200 ready" ELSE "503 not ready"

Readyz ==
  /\ probe' = [made |-> TRUE, initialized |-> isInitialized,
               answer |-> IF pc = "listening" THEN ReadyzAnswer(isInitialized)
                          ELSE "refused"]
  /\ UNCHANGED <<process, store, seedJson, req, boots, posts>>

(* ----------------------------- POST /checkout ------------------------ *)

\* The handler's two validation exits, in their order: the text of the 400
\* response, or "" when the cart goes on to be saved.
ValidateCatchAsEmpty(parsed) ==
  IF parsed.threw \/ ~parsed.isArray \/ Len(parsed.items) = 0
  THEN "Cart is empty"
  ELSE ""

ValidateArrayOnly(parsed) ==
  IF parsed.threw THEN "Invalid cart data"
  ELSE IF ~parsed.isArray THEN "Cart is empty"
  ELSE ""

Validate(parsed) ==
  IF parsed.threw THEN "Invalid cart data"
  ELSE IF ~parsed.isArray \/ Len(parsed.items) = 0 THEN "Cart is empty"
  ELSE ""

Respond(slot, status, text) ==
  [slot EXCEPT !.st = "done", !.status = status, !.text = text,
               !.txOrder = <<>>, !.txItems = <<>>]

\* The handler up to its first await, for request body `body` in slot r,
\* the first slot with no request awaiting save().
\* It runs to completion before any other callback. A TypeError of the
\* reduce is thrown outside the try block: the async handler's promise
\* rejects. What follows depends on the installed framework and runtime:
\* the rejection is unhandled and ends the process, or it is left pending,
\* or the framework's default error handler answers 500.
Checkout(r, body) ==
  /\ pc = "listening"
  /\ posts < MaxPosts
  /\ req[r].st # "saving"
  /\ \A q \in 1..(r - 1) : req[q].st = "saving"
  /\ posts' = posts + 1
  /\ LET parsed == JSONParse(OrEmptyArray(body.cartData))
         fresh == [IdleSlot EXCEPT !.body = body]
         reduced == ComputeTotal(parsed.items)
     IN
     IF Validate(parsed) # ""
     THEN /\ req' = [req EXCEPT ![r] = Respond(fresh, 400, Validate(parsed))]
          /\ UNCHANGED process
     ELSE IF reduced.threw
     THEN \E outcome \in {"exit", "pending", "errorHandler"} :
            CASE outcome = "exit" ->
                   /\ req' = DropInFlight(
                               [req EXCEPT ![r] = [fresh EXCEPT !.st = "rejected"]])
                   /\ pc' = "crashed"
                   /\ isInitialized' = FALSE
                   /\ UNCHANGED <<server, count>>
              [] outcome = "pending" ->
                   /\ req' = [req EXCEPT ![r] = [fresh EXCEPT !.st = "rejected"]]
                   /\ UNCHANGED process
              [] OTHER ->
                   /\ req' = [req EXCEPT ![r] =
                                [fresh EXCEPT !.st = "rejected", !.status = 500,
                                              !.text = "Internal Server Error"]]
                   /\ UNCHANGED process
     ELSE /\ req' = [req EXCEPT ![r] =
                       [fresh EXCEPT !.st = "saving",
                                     !.order = BuildOrder(body, parsed.items,
                                                          reduced.sum)]]
          /\ UNCHANGED process
  /\ UNCHANGED <<store, seedJson, boots, probe>>

\* save() rejected (a constraint violation or a lost connection): its
\* transaction is rolled back, and the catch block answers 500.
SaveRejectedNoRollback(r) ==
  /\ req' = [req EXCEPT ![r] = Respond(req[r], 500, "Error processing order")]
  /\ orders' = orders \cup {req[r].txOrder[k] : k \in 1..Len(req[r].txOrder)}
  /\ orderItems' = orderItems \cup {req[r].txItems[k] : k \in 1..Len(req[r].txItems)}

SaveRejected(r) ==
  /\ req' = [req EXCEPT ![r] = Respond(req[r], 500, "Error processing order")]
  /\ UNCHANGED <<orders, orderItems>>

\* save(order), first statement of its transaction: INSERT INTO orders.
\* The id sequence advances whether or not the row is accepted.
InsertOrder(r) ==
  /\ pc \in {"listening", "closing"}
  /\ req[r].st = "saving"
  /\ req[r].txOrder = <<>>
  /\ \E connected \in BOOLEAN :
       IF ~connected
       THEN SaveRejected(r) /\ UNCHANGED orderSeq
       ELSE /\ orderSeq' = orderSeq + 1
            /\ IF OrderViolates(req[r].order)
               THEN SaveRejected(r)
               ELSE /\ req' = [req EXCEPT ![r].txOrder =
                                 << OrderRow(orderSeq + 1, req[r].order) >>]
                    /\ UNCHANGED <<orders, orderItems>>
  /\ UNCHANGED <<process, products, productSeq, itemSeq, seedJson, boots,
                 posts, probe>>

\* save(order), cascade: INSERT INTO order_items for the next element of
\* order.orderItems, with the new order's id as its foreign key.
InsertOrderItem(r) ==
  /\ pc \in {"listening", "closing"}
  /\ req[r].st = "saving"
  /\ req[r].txOrder # <<>>
  /\ Len(req[r].txItems) < Len(req[r].order.orderItems)
  /\ LET oi == req[r].order.orderItems[Len(req[r].txItems) + 1] IN
     \E connected \in BOOLEAN :
       IF ~connected
       THEN SaveRejected(r) /\ UNCHANGED itemSeq
       ELSE /\ itemSeq' = itemSeq + 1
            /\ IF OrderItemViolates(oi)
               THEN SaveRejected(r)
               ELSE /\ req' = [req EXCEPT ![r].txItems =
                                 Append(@, OrderItemRow(itemSeq + 1,
                                                        req[r].txOrder[1].id, oi))]
                    /\ UNCHANGED <<orders, orderItems>>
  /\ UNCHANGED <<process, products, productSeq, orderSeq, seedJson, boots,
                 posts, probe>>

\* save(order), COMMIT: the rows become visible together; then the handler
\* answers 200 with saved.id.
Commit(r) ==
  /\ pc \in {"listening", "closing"}
  /\ req[r].st = "saving"
  /\ req[r].txOrder # <<>>
  /\ Len(req[r].txItems) = Len(req[r].order.orderItems)
  /\ \E connected \in BOOLEAN :
       IF ~connected
       THEN SaveRejected(r)
       ELSE /\ orders' = orders \cup {req[r].txOrder[1]}
            /\ orderItems' = orderItems \cup {req[r].txItems[k] :
                                               k \in 1..Len(req[r].txItems)}
            /\ req' = [req EXCEPT ![r] =
                         [Respond(req[r], 200, "Thank you for your order!")
                            EXCEPT !.orderId = req[r].txOrder[1].id]]
  /\ UNCHANGED <<process, products, productSeq, orderSeq, itemSeq, seedJson,
                 boots, posts, probe>>

(* ----------------------------- specifications ------------------------ *)

FilledForm(cartData) == Body(Str("Alice"), Str("1 Main St"), cartData)

\* The cart of k well-formed items, the two products alternating.
CartOfLen(k) ==
  [j \in 1..k |-> IF j % 2 = 1 THEN DarkChocolate ELSE CandyCrunch]

\* Bodies of the lifecycle specification: a filled-in form with a cart of
\* one well-formed item, or of one null.
LifecycleBodies ==
  {FilledForm(CartData("array", << DarkChocolate >>)),
   FilledForm(CartData("array", << NullItem >>))}

\* Bodies of the save specification: a filled-in form with a cart of
\* 1..MaxCart well-formed items, of one item without a quantity, or of one
\* null.
FormBodies ==
  {FilledForm(CartData("array", CartOfLen(k))) : k \in 1..MaxCart}
  \cup {FilledForm(CartData("array", << NoQuantity >>)),
        FilledForm(CartData("array", << NullItem >>))}

\* Bodies of the input specification: every form with one well-formed cart,
\* and a filled-in form with every cartData.
InputBodies ==
  {Body(n, a, CartData("array", << DarkChocolate >>)) :
     n \in NameValues, a \in AddressValues}
  \cup {FilledForm(c) :
          c \in NonArrayCartData \cup ArrayCartData({DarkChocolate} \cup OddItems)}

Startup ==
  \/ EnsureDatabaseExists
  \/ UploadStaticFilesToS3
  \/ Initialize
  \/ SeedCount
  \/ SeedSave
  \/ Listen

Save(r) ==
  \/ InsertOrder(r)
  \/ InsertOrderItem(r)
  \/ Commit(r)

\* The lifecycle: startups, shutdowns and restarts against one store, with
\* readiness checks at any time and requests handled one at a time.
Init == InitWith(SeedSettings)

Next ==
  \/ Startup
  \/ Shutdown
  \/ CloseCallback
  \/ ShutdownTimeout
  \/ Restart
  \/ Readyz
  \/ \E body \in LifecycleBodies : Checkout(1, body)
  \/ Save(1)

Spec == Init /\ [][Next]_vars

\* Concurrent saves: one startup, then requests handled concurrently; a
\* request whose handler throws may end the process under the others.
InitSave == InitWith({"unset"})

NextSave ==
  \/ Startup
  \/ \E r \in Slots : \E body \in FormBodies : Checkout(r, body)
  \/ \E r \in Slots : Save(r)

SpecSave == InitSave /\ [][NextSave]_vars

\* The checkout handler on every kind of request body, from one startup,
\* requests handled one at a time.
InitInputs == InitWith({"unset"})

NextInputs ==
  \/ Startup
  \/ \E body \in InputBodies : Checkout(1, body)
  \/ Save(1)

SpecInputs == InitInputs /\ [][NextInputs]_vars

(* ------------------------------ properties --------------------------- *)

ItemsOf(id) == {i \in orderItems : i.orderId = id}

RECURSIVE SumOfRows(_)
SumOfRows(rows) ==
  IF rows = {} THEN 0
  ELSE LET i == CHOOSE i \in rows : TRUE
       IN i.productPrice * i.quantity + SumOfRows(rows \ {i})

\* The rows of an order by ascending id: the order in which save() wrote them.
RECURSIVE RowsById(_)
RowsById(rows) ==
  IF rows = {} THEN <<>>
  ELSE LET i == CHOOSE i \in rows : \A j \in rows : i.id <= j.id
       IN <<i>> \o RowsById(rows \ {i})

\* Slot r has just received, in this step, a request whose body satisfies P.
Received(r) == posts' = posts + 1 /\ req'[r] # req[r]

Settled(r) == req[r].st \in {"done", "rejected"}

EmptyArrayText(cartData) == cartData.tag = "array" /\ cartData.items = <<>>

\* C1: every persisted Order's total equals the sum of productPrice x
\* quantity over the OrderItems it owns.
C1_TotalIsSumOfItems ==
  \A o \in orders : o.total = Num(SumOfRows(ItemsOf(o.id)))

\* No OrderItem row is without its Order, and no Order row is without items.
C2_AggregateWhole ==
  /\ \A i \in orderItems : \E o \in orders : o.id = i.orderId
  /\ \A o \in orders : ItemsOf(o.id) # {}

\* A step leaves both tables alone, or answers 200 and adds one Order row
\* together with one OrderItem row per cart item, all owned by it.
C2_AtomicStep ==
  \/ UNCHANGED <<orders, orderItems>>
  \/ \E r \in Slots :
       /\ req[r].st = "saving"
       /\ req'[r].st = "done"
       /\ req'[r].status = 200
       /\ orders \subseteq orders'
       /\ orderItems \subseteq orderItems'
       /\ Cardinality(orders' \ orders) = 1
       /\ \A o \in orders' \ orders : o.id = req'[r].orderId
       /\ Cardinality(orderItems' \ orderItems) = Len(req[r].body.cartData.items)
       /\ \A i \in orderItems' \ orderItems : i.orderId = req'[r].orderId

\* C2: order persistence is all-or-nothing. No OrderItem row is without its
\* Order and no Order row is without items; the tables change only in a step
\* that answers 200 and adds one Order row together with one OrderItem row
\* per cart item, all owned by it; a save that fails at any point (after the
\* header, between line items, at commit, or by the process ending) leaves
\* both tables as they were.
C2_AllOrNothing == [](C2_AggregateWhole) /\ [][C2_AtomicStep]_vars

\* C2 witness: the first request's save was rejected after its Order header
\* and its first line item were written, before the second; no row is left.
C2_FailedMidway ==
  /\ posts = 1
  /\ \E r \in Slots :
       /\ req[r].st = "done"
       /\ req[r].status = 500
       /\ Len(req[r].body.cartData.items) = 2
  /\ orderSeq = 1
  /\ itemSeq = 1
  /\ orders = {}
  /\ orderItems = {}

\* C3: a request whose cartData is the text of the empty array is answered
\* 400 "Cart is empty" and changes neither table nor id sequence.
C3_EmptyCartRejected ==
  [][\A r \in Slots :
       (Received(r) /\ EmptyArrayText(req'[r].body.cartData))
         => /\ req'[r].st = "done"
            /\ req'[r].status = 400
            /\ req'[r].text = "Cart is empty"
            /\ UNCHANGED <<orders, orderItems, orderSeq, itemSeq>>]_vars

\* C3 witness: an empty cart was rejected while an earlier order is stored.
C3_EmptyCartSeen ==
  /\ orders # {}
  /\ \E r \in Slots :
       /\ req[r].st = "done"
       /\ EmptyArrayText(req[r].body.cartData)
       /\ req[r].status = 400

\* C4 as stated: a cartData that is not the text of a JSON array, unparsable
\* or well-formed, is answered 400 "Invalid cart data".
C4_NonSequenceIsInvalidInput ==
  \A r \in Slots :
    (Settled(r) /\ req[r].body.cartData.tag \in {"garbage", "object"})
      => req[r].status = 400 /\ req[r].text = "Invalid cart data"

\* C4 amended: unparsable text is answered 400 "Invalid cart data";
\* well-formed JSON that is not an array is answered 400 "Cart is empty";
\* neither changes a table or an id sequence.
C4_ValidationOrder ==
  [][\A r \in Slots :
       /\ (Received(r) /\ req'[r].body.cartData.tag = "garbage")
            => /\ req'[r].st = "done"
               /\ req'[r].status = 400
               /\ req'[r].text = "Invalid cart data"
               /\ UNCHANGED <<orders, orderItems, orderSeq, itemSeq>>
       /\ (Received(r) /\ req'[r].body.cartData.tag = "object")
            => /\ req'[r].st = "done"
               /\ req'[r].status = 400
               /\ req'[r].text = "Cart is empty"
               /\ UNCHANGED <<orders, orderItems, orderSeq, itemSeq>>]_vars

\* C4 witness: unparsable text was answered "Invalid cart data".
C4_GarbageSeen ==
  \E r \in Slots :
    /\ req[r].st = "done"
    /\ req[r].body.cartData.tag = "garbage"
    /\ req[r].text = "Invalid cart data"

C5_UsableCart(cartData) == cartData.tag = "array" /\ cartData.items # <<>>

\* C5: a request that is over was answered 400 if its cartData is not a
\* non-empty array, and otherwise 500 by the storage-failure handler or 200
\* with the id of an Order that is persisted.

C5_OneResponsePerRequest ==
  \A r \in Slots :
    Settled(r) =>
      IF ~C5_UsableCart(req[r].body.cartData)
      THEN req[r].status = 400
      ELSE \/ req[r].status = 500 /\ req[r].text = "Error processing order"
           \/ /\ req[r].status = 200
              /\ \E o \in orders : o.id = req[r].orderId

\* C8: every persisted Order has a non-empty name and a non-empty address.
C8_NameAndAddressNonEmpty ==
  \A o \in orders : o.name # "" /\ o.address # ""

\* The rows of the request in slot r are its cart, item by item.
C9_RowsMatchCart(r) ==
  LET cart == req[r].body.cartData.items
      rows == RowsById(ItemsOf(req[r].orderId))
  IN /\ Cardinality({o \in orders : o.id = req[r].orderId}) = 1
     /\ Len(rows) = Len(cart)
     /\ \A k \in 1..Len(rows) :
          /\ cart[k].name = Str(rows[k].productName)
          /\ cart[k].price = Num(rows[k].productPrice)
          /\ cart[k].quantity = Num(rows[k].quantity)

\* C9: each request answered 200 has exactly one Order row under the id it
\* was given, distinct from every other Order's, and exactly one OrderItem
\* row per cart item, owned by that Order, carrying the name, price and
\* quantity of the corresponding cart item.
C9_RequestsIsolated ==
  /\ \A o1, o2 \in orders : o1.id = o2.id => o1 = o2
  /\ \A r \in Slots :
       (req[r].st = "done" /\ req[r].status = 200) => C9_RowsMatchCart(r)


\* The products table holds nothing, or the seed list once.
C6_OneSetOfSeeds(list) ==
  \/ products = <<>>
  \/ /\ Len(products) = Len(list)
     /\ \A k \in 1..Len(list) :
          /\ products[k].name = list[k].name
          /\ products[k].price = list[k].price
          /\ products[k].image = list[k].image
     /\ \A j, k \in 1..Len(products) : products[j].id = products[k].id => j = k

\* C6: seeding is idempotent. Over any number of startups against the same
\* store with the same defaults, the products table holds at most one set of
\* the seeded rows, and a step changes it only from empty, in the seed step
\* of a startup that counted 0 products.
C6_SeedingIdempotent ==
  /\ [](C6_OneSetOfSeeds(SeedDefaults(seedJson).list))
  /\ [][products' # products => (pc = "seed" /\ count = 0 /\ products = <<>>)]_vars

\* C6 witness: a second startup went through the seed step's count and is
\* listening, over the one set of rows the first startup inserted.
C6_SecondStartupSeeded ==
  /\ boots = 2
  /\ pc = "listening"
  /\ count = Len(DefaultProducts)
  /\ Len(products) = Len(DefaultProducts)

\* C7 as stated: a readiness check is answered 503 "not ready" when the
\* storage connection is not initialized and 200 "ready" when it is.
C7_ReadyzFollowsConnection ==
  probe.made =>
    probe.answer = (IF probe.initialized THEN "200 ready" ELSE "503 not ready")

\* C7 amended: a readiness check is answered only while the server listens,
\* and then 200 "ready" with the connection initialized; one made at any
\* other time, before the connection is established included, is refused
\* and gets no HTTP answer. 503 "not ready" is never sent.
C7_ReadyzAnswersOnlyReady ==
  probe.made =>
    \/ probe.answer = "200 ready" /\ probe.initialized
    \/ probe.answer = "refused"

\* C7 witness: the check made before the connection was established was
\* refused, and the process has since connected and listens.
C7_RefusedBeforeConnection ==
  /\ probe.made
  /\ ~probe.initialized
  /\ probe.answer = "refused"
  /\ pc = "listening"
  /\ isInitialized
  /\ boots = 1

\* The seed step is behind: the table is seeded, or there is nothing to seed.
C10_Seeded ==
  products # <<>> \/ SeedDefaults(seedJson).list = <<>>

\* C10: startup is ordered. The connection exists only from the seed step's
\* count on; the server is assigned, and requests are received, only once
\* the process listens, with the connection initialized and the seed step
\* behind; a process that exited on a startup error never listened.
C10_StartupOrdered ==
  /\ isInitialized => pc \in {"count", "seed", "listen", "listening", "closing"}
  /\ server => pc \in {"listening", "closing", "exited", "crashed"}
  /\ pc \in {"listening", "closing"} => server /\ isInitialized /\ C10_Seeded
  /\ pc = "listen" => isInitialized /\ C10_Seeded
  /\ pc = "startupError" => ~server
  /\ \A r \in Slots : req[r].st # "idle" => server

\* C10 witness: the seed step failed, and the process exited with an error
\* without a server.
C10_SeedFailedNoServer ==
  /\ pc = "startupError"
  /\ boots = 1
  /\ products = <<>>
  /\ productSeq = Len(DefaultProducts)
  /\ ~server

====
